---- MODULE Spec2Model ----
(***************************************************************************)
(* zkID (OpenID-based) transaction authentication: the claim/nonce/expiry  *)
(* checks of types/src/zkid.rs, as a call/return state machine.            *)
(*                                                                         *)
(* Every operation of the file is a pure function of its arguments, so a   *)
(* state is "the last call, its arguments and what it returned".           *)
(* Timestamps live in a scaled-down machine word (U64_MAX) so that the     *)
(* unsigned addition and the SystemTime addition can leave their range.    *)
(* Strings are TLA+ strings with their real byte lengths.  The Poseidon    *)
(* hash and the encodings around it are free (injective) term builders:    *)
(* deterministic and collision-free, with the size checks they perform.    *)
(***************************************************************************)
EXTENDS Integers, Sequences, FiniteSets, TLC

VARIABLES overflow_checks, op, args, ret

vars == <<overflow_checks, op, args, ret>>

---------------------------------------------------------------------------
(* Bounds of the model.                                                    *)

\* Largest value of the model's unsigned word (u64::MAX, scaled down).
U64_MAX == 15
\* Largest number of seconds SystemTime can hold past UNIX_EPOCH
\* (i64::MAX on the supported platforms: half the unsigned range).
I64_MAX == U64_MAX \div 2
\* MAX_EXPIRY_HORIZON_SECS (1728000000 in zkid.rs), scaled to the model word.
MAX_EXPIRY_HORIZON_SECS == 3
\* Microseconds per second of Duration::from_micros, scaled to the model word.
MICROS_PER_SEC == 3
\* Longest authenticator set enumerated with every mix of slot kinds.
MaxSlots == 3
\* Longest authenticator set enumerated with zkID slots only.
MaxSigners == 12

---------------------------------------------------------------------------
(* Program constants.                                                      *)

MAX_EPK_BYTES == 93
MAX_AUD_VAL_BYTES == 248
MAX_UID_KEY_BYTES == 248
\* The uid_val ceiling taken from the wrong constant.
MAX_UID_VAL_BYTES_from_epk == MAX_EPK_BYTES
MAX_UID_VAL_BYTES == 248
\* The authenticator ceiling off by one.
MAX_ZK_ID_AUTHENTICATORS_ALLOWED_plus_one == 10 + 1
MAX_ZK_ID_AUTHENTICATORS_ALLOWED == 10

---------------------------------------------------------------------------
(* Result<T>, Option<T> and a panic (the call aborts, returning nothing).  *)

Ok(v) == [tag |-> "Ok", val |-> v]
Err(m) == [tag |-> "Err", val |-> m]
Panic(m) == [tag |-> "Panic", val |-> m]

None == [some |-> FALSE]
Some(v) == [some |-> TRUE, v |-> v]

\* serde_json::Value, as far as as_bool / as_str tell values apart.
JBool(b) == [kind |-> "bool", b |-> b]
JString(s) == [kind |-> "string", s |-> s]
JNumber(n) == [kind |-> "number", n |-> n]

as_bool(v) == IF v.kind = "bool" THEN Some(v.b) ELSE None
as_str(v) == IF v.kind = "string" THEN Some(v.s) ELSE None
unwrap_or(o, d) == IF o.some THEN o.v ELSE d

\* The string of n copies of c.
RECURSIVE Rep(_, _)
Rep(c, n) ==
    IF n = 0 THEN ""
    ELSE IF n % 2 = 0 THEN LET half == Rep(c, n \div 2) IN half \o half
    ELSE c \o Rep(c, n - 1)

---------------------------------------------------------------------------
(* Time.                                                                   *)

\* u64 + u64: a build with overflow checks panics, one without wraps.
u64_add(a, b) ==
    IF a + b <= U64_MAX THEN Ok(a + b)
    ELSE IF overflow_checks THEN Panic("attempt to add with overflow")
    ELSE Ok((a + b) % (U64_MAX + 1))

Duration_from_secs(secs) == [secs |-> secs, nanos |-> 0]
Duration_from_micros(micros) ==
    [secs |-> micros \div MICROS_PER_SEC, nanos |-> (micros % MICROS_PER_SEC) * 1000]

\* UNIX_EPOCH + Duration: SystemTime's Add panics when the sum is out of range.
epoch_plus(d) ==
    IF d.secs > I64_MAX THEN Panic("overflow when adding duration to instant")
    ELSE Ok([secs |-> d.secs, nanos |-> d.nanos])

seconds_from_epoch(secs) == epoch_plus(Duration_from_secs(secs))

time_lt(a, b) == a.secs < b.secs \/ (a.secs = b.secs /\ a.nanos < b.nanos)

---------------------------------------------------------------------------
(* poseidon_bn254 and the encodings.                                       *)

pad_and_hash_string(s, max_bytes) ==
    IF Len(s) > max_bytes THEN Err("string exceeds the maximum length")
    ELSE Ok("hs" \o ToString(max_bytes) \o "(" \o s \o ")")

pad_and_pack_bytes_to_scalars_with_len(bytes, max_bytes) ==
    IF Len(bytes) > max_bytes THEN Err("bytes exceed the maximum length")
    ELSE Ok(<<"pack" \o ToString(max_bytes) \o "(" \o bytes \o ")",
              "len(" \o ToString(Len(bytes)) \o ")">>)

pack_bytes_to_one_scalar(bytes) == Ok("sc(" \o bytes \o ")")

Fr_from(n) == "fr(" \o ToString(n) \o ")"

RECURSIVE join(_)
join(frs) == IF Len(frs) = 0 THEN "" ELSE Head(frs) \o ";" \o join(Tail(frs))

hash_scalars(frs) == Ok("poseidon(" \o join(frs) \o ")")

serialize_uncompressed(fr) == "le32(" \o fr \o ")"

base64_encode(bytes) == "b64(" \o bytes \o ")"

---------------------------------------------------------------------------
(* types/src/zkid.rs                                                       *)

\* fn base64url_to_str: base64 decoding, then UTF-8 decoding.  A payload is
\* its encoding ("ok", "bad_base64", "bad_utf8") and the text it decodes to.
base64url_to_str(b64) ==
    IF b64.encoding = "bad_base64" THEN Err("base64 decode error")
    ELSE IF b64.encoding = "bad_utf8" THEN Err("invalid utf-8")
    ELSE Ok(b64.text)

\* serde_json::from_str::<Claims>: the text is a JSON object with the required
\* fields iss, aud, sub, nonce, iat (then .claims holds them), or it is not.
serde_json_from_str(text) ==
    IF text.wellformed THEN Ok(text.claims) ELSE Err("json parse error")

\* The same with "true" as the default of a value that is no string.
email_verified_is_true_by_default(email_verified) ==
    LET email_verified_as_bool == unwrap_or(as_bool(email_verified), FALSE)
        email_verified_as_str == unwrap_or(as_str(email_verified), "true")
    IN  email_verified_as_bool \/ email_verified_as_str = "true"

\* The condition get_uid_val ensures of the 'email_verified' claim, which may
\* be a boolean or a boolean-as-a-string.
email_verified_is_true(email_verified) ==
    LET email_verified_as_bool == unwrap_or(as_bool(email_verified), FALSE)
        email_verified_as_str == unwrap_or(as_str(email_verified), "false")
    IN  email_verified_as_bool \/ email_verified_as_str = "true"

\* Claims::get_uid_val
get_uid_val(claims, uid_key) ==
    IF uid_key = "email" THEN
        IF ~claims.email_verified.some THEN Err("'email_verified' claim is missing")
        ELSE
            IF ~email_verified_is_true(claims.email_verified.v)
            THEN Err("'email_verified' claim was not \"true\"")
            ELSE IF claims.email.some THEN Ok(claims.email.v)
            ELSE Err("email claim missing on jwt")
    ELSE IF uid_key = "sub" THEN Ok(claims.sub)
    ELSE
        IF uid_key \notin DOMAIN claims.additional_claims
        THEN Err("claim missing on jwt")
        ELSE IF ~as_str(claims.additional_claims[uid_key]).some
        THEN Err("value is not a string")
        ELSE Ok(as_str(claims.additional_claims[uid_key]).v)

\* IdCommitment::new_from_preimage
new_from_preimage(aud, uid_key, uid_val, pepper) ==
    LET aud_val_hash == pad_and_hash_string(aud, MAX_AUD_VAL_BYTES) IN
    IF aud_val_hash.tag # "Ok" THEN aud_val_hash ELSE
    LET uid_key_hash == pad_and_hash_string(uid_key, MAX_UID_KEY_BYTES) IN
    IF uid_key_hash.tag # "Ok" THEN uid_key_hash ELSE
    LET uid_val_hash == pad_and_hash_string(uid_val, MAX_UID_VAL_BYTES) IN
    IF uid_val_hash.tag # "Ok" THEN uid_val_hash ELSE
    LET pepper_scalar == pack_bytes_to_one_scalar(pepper) IN
    IF pepper_scalar.tag # "Ok" THEN pepper_scalar ELSE
    LET fr == hash_scalars(<<aud_val_hash.val, uid_key_hash.val,
                             uid_val_hash.val, pepper_scalar.val>>) IN
    IF fr.tag # "Ok" THEN fr ELSE
    Ok(serialize_uncompressed(fr.val))

\* reconstruct_oauth_nonce without the push of exp_timestamp_secs.
reconstruct_oauth_nonce_without_exp(self, exp_timestamp_secs, epk) ==
    LET packed == pad_and_pack_bytes_to_scalars_with_len(epk, MAX_EPK_BYTES) IN
    IF packed.tag # "Ok" THEN packed ELSE
    LET blinder == pack_bytes_to_one_scalar(self.epk_blinder) IN
    IF blinder.tag # "Ok" THEN blinder ELSE
    LET frs == Append(packed.val, blinder.val)
        nonce_fr == hash_scalars(frs) IN
    IF nonce_fr.tag # "Ok" THEN nonce_fr ELSE
    Ok(base64_encode(serialize_uncompressed(nonce_fr.val)))

\* OpenIdSig::reconstruct_oauth_nonce
reconstruct_oauth_nonce(self, exp_timestamp_secs, epk) ==
    LET packed == pad_and_pack_bytes_to_scalars_with_len(epk, MAX_EPK_BYTES) IN
    IF packed.tag # "Ok" THEN packed ELSE
    LET blinder == pack_bytes_to_one_scalar(self.epk_blinder) IN
    IF blinder.tag # "Ok" THEN blinder ELSE
    LET frs == Append(Append(packed.val, Fr_from(exp_timestamp_secs)), blinder.val)
        nonce_fr == hash_scalars(frs) IN
    IF nonce_fr.tag # "Ok" THEN nonce_fr ELSE
    Ok(base64_encode(serialize_uncompressed(nonce_fr.val)))

\* The first ensure! with <= for <.
expiration_within_horizon_inclusive(expiration_date, max_expiration_date) ==
    ~time_lt(max_expiration_date, expiration_date)

\* The condition of verify_jwt_claims' first ensure!.
expiration_within_horizon(expiration_date, max_expiration_date) ==
    time_lt(expiration_date, max_expiration_date)

\* The third ensure! left out.
uid_key_allowed_always(uid_key) == TRUE

\* The condition of verify_jwt_claims' third ensure!.
uid_key_allowed(uid_key) == uid_key = "sub" \/ uid_key = "email"

\* OpenIdSig::verify_jwt_claims
verify_jwt_claims(self, exp_timestamp_secs, epk, pk) ==
    LET jwt_payload_json == base64url_to_str(self.jwt_payload) IN
    IF jwt_payload_json.tag # "Ok" THEN jwt_payload_json ELSE
    LET parsed == serde_json_from_str(jwt_payload_json.val) IN
    IF parsed.tag # "Ok" THEN parsed ELSE
    LET claims == parsed.val
        horizon == u64_add(claims.iat, MAX_EXPIRY_HORIZON_SECS) IN
    IF horizon.tag # "Ok" THEN horizon ELSE
    LET max_expiration_date == seconds_from_epoch(horizon.val) IN
    IF max_expiration_date.tag # "Ok" THEN max_expiration_date ELSE
    LET expiration_date == seconds_from_epoch(exp_timestamp_secs) IN
    IF expiration_date.tag # "Ok" THEN expiration_date ELSE
    IF ~expiration_within_horizon(expiration_date.val, max_expiration_date.val)
    THEN Err("The ephemeral public key's expiration date is too far into the future")
    ELSE
    IF ~(claims.iss = pk.iss) THEN Err("'iss' claim was supposed to match") ELSE
    IF ~uid_key_allowed(self.uid_key)
    THEN Err("uid_key must be either 'sub' or 'email'")
    ELSE
    LET uid_val == get_uid_val(claims, self.uid_key) IN
    IF uid_val.tag # "Ok" THEN uid_val ELSE
    LET idc == new_from_preimage(claims.aud, self.uid_key, uid_val.val, self.pepper) IN
    IF idc.tag # "Ok" THEN idc ELSE
    IF ~(idc.val = pk.idc) THEN Err("Address IDC verification failed") ELSE
    LET nonce == reconstruct_oauth_nonce(self, exp_timestamp_secs, epk) IN
    IF nonce.tag # "Ok" THEN nonce ELSE
    IF ~(nonce.val = claims.nonce)
    THEN Err("'nonce' claim did not contain the expected EPK and expiration date commitment")
    ELSE Ok("unit")

\* ZkIdSignature::verify_expiry
verify_expiry(self, current_time) ==
    LET block_time == epoch_plus(Duration_from_micros(current_time.microseconds)) IN
    IF block_time.tag # "Ok" THEN block_time ELSE
    LET expiry_time == seconds_from_epoch(self.exp_timestamp_secs) IN
    IF expiry_time.tag # "Ok" THEN expiry_time ELSE
    IF time_lt(expiry_time.val, block_time.val)
    THEN Err("zkID Signature is expired")
    ELSE Ok("unit")

\* The loop matching on the public key alone.
RECURSIVE push_zkid_by_public_key(_, _)
push_zkid_by_public_key(authenticators, rest) ==
    IF Len(rest) = 0 THEN authenticators
    ELSE LET authenticator == Head(rest) IN
         IF authenticator.public_key.variant = "ZkId"
         THEN push_zkid_by_public_key(
                  Append(authenticators,
                         <<authenticator.public_key, authenticator.signature>>),
                  Tail(rest))
         ELSE push_zkid_by_public_key(authenticators, Tail(rest))

\* The loop of get_zkid_authenticators over the single-key authenticators.
RECURSIVE push_zkid(_, _)
push_zkid(authenticators, rest) ==
    IF Len(rest) = 0 THEN authenticators
    ELSE LET authenticator == Head(rest) IN
         IF authenticator.public_key.variant = "ZkId"
            /\ authenticator.signature.variant = "ZkId"
         THEN push_zkid(Append(authenticators,
                               <<authenticator.public_key, authenticator.signature>>),
                        Tail(rest))
         ELSE push_zkid(authenticators, Tail(rest))

\* get_zkid_authenticators.  transaction.single_key is what
\* to_single_key_authenticators() returns: Ok(slots) or an error.
get_zkid_authenticators(transaction) ==
    LET single_key_authenticators == transaction.single_key IN
    IF single_key_authenticators.tag # "Ok" THEN single_key_authenticators
    ELSE Ok(push_zkid(<<>>, single_key_authenticators.val))

\* The validation that consumes get_zkid_authenticators: a transaction with
\* more than MAX_ZK_ID_AUTHENTICATORS_ALLOWED zkID authenticators is rejected,
\* otherwise its zkID authenticators go on to verification (the value returned).
validate_zkid_authenticators(transaction) ==
    LET authenticators == get_zkid_authenticators(transaction) IN
    IF authenticators.tag # "Ok" THEN authenticators ELSE
    IF Len(authenticators.val) > MAX_ZK_ID_AUTHENTICATORS_ALLOWED
    THEN Err("Too many zkID authenticators")
    ELSE Ok(authenticators.val)

---------------------------------------------------------------------------
(* The arguments the operations are called with.                           *)

U64 == 0..U64_MAX

ISS_A == "https://accounts.example.com"
ISS_B == "https://login.example.org"
AUD == "client-id-1"
SUB == "123"
EMAIL == "bob@example.com"
EPK_A == "ed25519:epk-A"
EPK_B == "ed25519:epk-B"
BLINDER_1 == "blinder-1"
BLINDER_2 == "blinder-2"
PEPPER_1 == "pepper-1"
PEPPER_2 == "pepper-2"

\* Strings at, just under and just over the 248-byte ceiling; keys around 93.
Str247 == Rep("a", 247)
Str248 == Rep("a", 248)
Str249 == Rep("a", 249)
Epk93 == Rep("k", 93)
Epk94 == Rep("k", 94)

NoClaims == <<>>
NameString == ("name" :> JString("Bob"))
NameNumber == ("name" :> JNumber(7))

\* The values the email_verified claim is given.
EmailVerifiedValues ==
    {None, Some(JBool(TRUE)), Some(JBool(FALSE)), Some(JString("true")),
     Some(JString("false")), Some(JString("1")), Some(JString("True")),
     Some(JNumber(1))}

\* struct Claims (with OidcClaims flattened into it).
MkClaims(iss, nonce, iat, email, email_verified, additional_claims) ==
    [iss |-> iss, aud |-> AUD, sub |-> SUB, nonce |-> nonce, iat |-> iat,
     email |-> email, email_verified |-> email_verified,
     additional_claims |-> additional_claims]

\* The nonce claims of the tokens: commitments to a key and an expiry with
\* BLINDER_1, and one that is no commitment at all.
TokenExps == 0..I64_MAX
TAMPERED_NONCE == "b64(le32(poseidon(tampered)))"
NonceClaims ==
    {reconstruct_oauth_nonce([epk_blinder |-> BLINDER_1], x, EPK_A).val : x \in TokenExps}
        \cup {TAMPERED_NONCE}

\* The optional and additional claims of the tokens handed to verify_jwt_claims.
ClaimShapes ==
    {[email |-> Some(EMAIL), email_verified |-> Some(JBool(TRUE)), more |-> NameString],
     [email |-> Some(EMAIL), email_verified |-> Some(JString("false")), more |-> NoClaims]}

UidKeys == {"sub", "email", "name"}

\* The identity commitments of the public keys handed to verify_jwt_claims.
Idcs ==
    {new_from_preimage(AUD, "sub", SUB, PEPPER_1).val,
     new_from_preimage(AUD, "email", EMAIL, PEPPER_1).val,
     new_from_preimage(AUD, "name", "Bob", PEPPER_1).val}

WellFormedPayloads ==
    {[encoding |-> "ok",
      text |-> [wellformed |-> TRUE,
                claims |-> MkClaims(iss, nonce, iat, sh.email, sh.email_verified, sh.more)]] :
        iss \in {ISS_A, ISS_B}, nonce \in NonceClaims, iat \in U64, sh \in ClaimShapes}

MalformedPayloads ==
    {[encoding |-> "bad_base64"], [encoding |-> "bad_utf8"],
     [encoding |-> "ok", text |-> [wellformed |-> FALSE]]}

\* struct OpenIdSig
MkOpenIdSig(jwt_payload, uid_key, epk_blinder, pepper) ==
    [jwt_payload |-> jwt_payload, uid_key |-> uid_key,
     epk_blinder |-> epk_blinder, pepper |-> pepper]

\* The claims handed to get_uid_val directly.
UidValClaims ==
    {MkClaims(ISS_A, TAMPERED_NONCE, 0, email, email_verified, more) :
        email \in {None, Some(EMAIL)}, email_verified \in EmailVerifiedValues,
        more \in {NoClaims, NameString, NameNumber}}

\* A signer slot: AnyPublicKey and AnySignature, each a variant and its content
\* (the content is named after the slot it sits in).
Variants == {"ZkId", "Ed25519"}
MkSlot(i, pk_variant, sig_variant) ==
    [public_key |-> [variant |-> pk_variant, key |-> i],
     signature |-> [variant |-> sig_variant, sig |-> i]]

\* Authenticator sets: short ones with every mix of variants, long ones of
\* zkID slots only, and one whose conversion to single-key authenticators fails.
MixedSlots ==
    UNION {{[i \in 1..n |-> MkSlot(i, kinds[i][1], kinds[i][2])] :
                kinds \in [1..n -> Variants \X Variants]} : n \in 0..MaxSlots}
ZkIdSlots == {[i \in 1..n |-> MkSlot(i, "ZkId", "ZkId")] : n \in 0..MaxSigners}
Transactions ==
    {[single_key |-> Ok(slots)] : slots \in MixedSlots \cup ZkIdSlots}
        \cup {[single_key |-> Err("invalid authenticator")]}

---------------------------------------------------------------------------
(* The state machine: one action per operation.                            *)

Init ==
    /\ overflow_checks \in BOOLEAN
    /\ op = "none"
    /\ args = <<>>
    /\ ret = Ok("unit")

CallVerifyJwtClaims ==
    /\ op = "none"
    /\ \E jwt_payload \in WellFormedPayloads \cup MalformedPayloads,
       uid_key \in UidKeys, exp_timestamp_secs \in U64,
       epk \in {EPK_A, EPK_B}, idc \in Idcs :
        LET self == MkOpenIdSig(jwt_payload, uid_key, BLINDER_1, PEPPER_1)
            pk == [iss |-> ISS_A, idc |-> idc]
        IN  /\ op' = "verify_jwt_claims"
            /\ args' = [self |-> self, exp_timestamp_secs |-> exp_timestamp_secs,
                        epk |-> epk, pk |-> pk]
            /\ ret' = verify_jwt_claims(self, exp_timestamp_secs, epk, pk)
            /\ UNCHANGED overflow_checks

CallVerifyExpiry ==
    /\ op = "none"
    /\ \E exp_timestamp_secs \in U64, microseconds \in U64 :
        LET self == [exp_timestamp_secs |-> exp_timestamp_secs]
            current_time == [microseconds |-> microseconds]
        IN  /\ op' = "verify_expiry"
            /\ args' = [self |-> self, current_time |-> current_time]
            /\ ret' = verify_expiry(self, current_time)
            /\ UNCHANGED overflow_checks

CallGetUidVal ==
    /\ op = "none"
    /\ \E claims \in UidValClaims, uid_key \in UidKeys \cup {"nickname"} :
        /\ op' = "get_uid_val"
        /\ args' = [claims |-> claims, uid_key |-> uid_key]
        /\ ret' = get_uid_val(claims, uid_key)
        /\ UNCHANGED overflow_checks

CallNewFromPreimage ==
    /\ op = "none"
    /\ \E aud \in {AUD, Str247, Str248, Str249},
          uid_key \in {"sub", "email", Str248, Str249},
          uid_val \in {SUB, "", Str248, Str249},
          pepper \in {PEPPER_1, PEPPER_2} :
        /\ op' = "new_from_preimage"
        /\ args' = [aud |-> aud, uid_key |-> uid_key, uid_val |-> uid_val,
                    pepper |-> pepper]
        /\ ret' = new_from_preimage(aud, uid_key, uid_val, pepper)
        /\ UNCHANGED overflow_checks

CallReconstructOauthNonce ==
    /\ op = "none"
    /\ \E epk \in {EPK_A, EPK_B, Epk93, Epk94}, exp_timestamp_secs \in U64,
          epk_blinder \in {BLINDER_1, BLINDER_2} :
        LET self == [epk_blinder |-> epk_blinder] IN
        /\ op' = "reconstruct_oauth_nonce"
        /\ args' = [self |-> self, exp_timestamp_secs |-> exp_timestamp_secs,
                    epk |-> epk]
        /\ ret' = reconstruct_oauth_nonce(self, exp_timestamp_secs, epk)
        /\ UNCHANGED overflow_checks

CallGetZkidAuthenticators ==
    /\ op = "none"
    /\ \E transaction \in Transactions :
        /\ op' = "get_zkid_authenticators"
        /\ args' = [transaction |-> transaction]
        /\ ret' = get_zkid_authenticators(transaction)
        /\ UNCHANGED overflow_checks

CallValidateZkidAuthenticators ==
    /\ op = "none"
    /\ \E transaction \in Transactions :
        /\ op' = "validate_zkid_authenticators"
        /\ args' = [transaction |-> transaction]
        /\ ret' = validate_zkid_authenticators(transaction)
        /\ UNCHANGED overflow_checks

\* The caller takes the result; the next call can start.
Return ==
    /\ op # "none"
    /\ op' = "none"
    /\ args' = <<>>
    /\ ret' = Ok("unit")
    /\ UNCHANGED overflow_checks

Next ==
    \/ CallVerifyJwtClaims
    \/ CallVerifyExpiry
    \/ CallGetUidVal
    \/ CallNewFromPreimage
    \/ CallReconstructOauthNonce
    \/ CallGetZkidAuthenticators
    \/ CallValidateZkidAuthenticators
    \/ Return

Spec == Init /\ [][Next]_vars

---------------------------------------------------------------------------
(* What a call of verify_jwt_claims was given, read off its arguments.     *)

IsVerify == op = "verify_jwt_claims"

\* The payload decodes and parses, so that there are claims to check.
Parses(a) ==
    /\ a.self.jwt_payload.encoding = "ok"
    /\ a.self.jwt_payload.text.wellformed

ClaimsOf(a) == a.self.jwt_payload.text.claims

\* (1) the expiry lies beyond issued-at plus the horizon (as integers).
HorizonExceeded(a) ==
    a.exp_timestamp_secs > ClaimsOf(a).iat + MAX_EXPIRY_HORIZON_SECS

\* (2) the issuer of the token is not the issuer of the public key.
IssMismatch(a) == ClaimsOf(a).iss # a.pk.iss

\* (3) the uid_key is not allowed, or the token has no usable value for it.
UidPolicyFails(a) ==
    \/ a.self.uid_key \notin {"sub", "email"}
    \/ get_uid_val(ClaimsOf(a), a.self.uid_key).tag # "Ok"

\* (4) the commitment to (aud, uid_key, uid_val, pepper) is not the key's.
IdcMismatch(a) ==
    LET uid_val == get_uid_val(ClaimsOf(a), a.self.uid_key) IN
    /\ uid_val.tag = "Ok"
    /\ LET idc == new_from_preimage(ClaimsOf(a).aud, a.self.uid_key, uid_val.val,
                                    a.self.pepper)
       IN  idc.tag # "Ok" \/ idc.val # a.pk.idc

\* (5) the commitment to (epk, exp_timestamp_secs, epk_blinder) is not the
\* token's nonce.
NonceMismatch(a) ==
    LET nonce == reconstruct_oauth_nonce(a.self, a.exp_timestamp_secs, a.epk) IN
    nonce.tag # "Ok" \/ nonce.val # ClaimsOf(a).nonce

OthersPass(a) ==
    ~IssMismatch(a) /\ ~UidPolicyFails(a) /\ ~IdcMismatch(a) /\ ~NonceMismatch(a)

\* A timestamp of the call lies beyond what SystemTime holds.
TimeOutOfRange(a) ==
    \/ ClaimsOf(a).iat + MAX_EXPIRY_HORIZON_SECS > I64_MAX
    \/ a.exp_timestamp_secs > I64_MAX

\* The call turned the signature down: it returned an error, or it aborted,
\* which it does only on a timestamp out of range.
Rejected(a) ==
    \/ ret.tag = "Err"
    \/ (ret.tag = "Panic" /\ TimeOutOfRange(a))

AnyViolated(a) ==
    \/ HorizonExceeded(a)
    \/ IssMismatch(a)
    \/ UidPolicyFails(a)
    \/ IdcMismatch(a)
    \/ NonceMismatch(a)

---------------------------------------------------------------------------
(* C1 *)

\* C1: verify_jwt_claims returns an error whenever at least one of the five
\* checks (horizon, issuer, uid_key policy, identity commitment, nonce) is
\* violated, whatever the other four say, and returns Ok only when none is.
C1_ErrWheneverViolated ==
    (IsVerify /\ Parses(args)) =>
        /\ AnyViolated(args) => ret.tag = "Err"
        /\ ret.tag = "Ok" => ~AnyViolated(args)

\* What remains of C1 when the time arithmetic aborts: no violated check is
\* ever accepted; the call returns the error unless a timestamp is out of
\* range, where it may abort instead.
C1_NeverAcceptedWhenViolated ==
    (IsVerify /\ Parses(args) /\ AnyViolated(args)) => Rejected(args)

---------------------------------------------------------------------------
(* C2 *)

\* C2 as claimed: with the other four checks passing and every timestamp in
\* the range SystemTime holds, the call is accepted exactly when
\* exp_timestamp_secs <= iat + MAX_EXPIRY_HORIZON_SECS (inclusive boundary).
C2_HorizonInclusive ==
    (/\ IsVerify /\ Parses(args) /\ OthersPass(args)
     /\ ClaimsOf(args).iat + MAX_EXPIRY_HORIZON_SECS <= I64_MAX
     /\ args.exp_timestamp_secs <= I64_MAX) =>
        (ret.tag = "Ok" <=>
            args.exp_timestamp_secs <= ClaimsOf(args).iat + MAX_EXPIRY_HORIZON_SECS)

\* C2, amended: the boundary is exclusive.  With the other four checks
\* passing, the call returns Ok only if exp_timestamp_secs < iat + horizon
\* (so exp = iat + horizon is rejected), and it does return Ok for every
\* exp_timestamp_secs < iat + horizon when iat + horizon is a time SystemTime
\* holds (so exp = iat + horizon - 1 is accepted).
C2_HorizonExclusive ==
    (IsVerify /\ Parses(args) /\ OthersPass(args)) =>
        LET iat == ClaimsOf(args).iat
            exp == args.exp_timestamp_secs
        IN  /\ ret.tag = "Ok" => exp < iat + MAX_EXPIRY_HORIZON_SECS
            /\ exp = iat + MAX_EXPIRY_HORIZON_SECS => ret.tag # "Ok"
            /\ (iat + MAX_EXPIRY_HORIZON_SECS <= I64_MAX
                    /\ exp < iat + MAX_EXPIRY_HORIZON_SECS) => ret.tag = "Ok"

\* A token verified with exp_timestamp_secs = iat + horizon exactly, every
\* other check passing, and turned down for its expiry.
C2_Witness ==
    /\ IsVerify /\ Parses(args) /\ OthersPass(args)
    /\ args.exp_timestamp_secs = ClaimsOf(args).iat + MAX_EXPIRY_HORIZON_SECS
    /\ ClaimsOf(args).iat = 1
    /\ ret.tag = "Err"

---------------------------------------------------------------------------
(* C3 *)

IsVerifyExpiry == op = "verify_expiry"

\* C3: verify_expiry returns Ok iff current_time.microseconds <=
\* exp_timestamp_secs * (microseconds per second), and the Expired error
\* exactly when the current time is strictly greater.
C3_ExpiredIffLater ==
    IsVerifyExpiry =>
        LET now == args.current_time.microseconds
            exp == args.self.exp_timestamp_secs * MICROS_PER_SEC
        IN  /\ ret.tag = "Ok" <=> now <= exp
            /\ ret.tag = "Err" <=> now > exp

\* What remains of C3 when seconds_from_epoch aborts: for every expiry that
\* SystemTime holds the call returns Ok iff the current time is not later.
C3_ExpiredIffLaterInRange ==
    (IsVerifyExpiry /\ args.self.exp_timestamp_secs <= I64_MAX) =>
        LET now == args.current_time.microseconds
            exp == args.self.exp_timestamp_secs * MICROS_PER_SEC
        IN  /\ ret.tag = "Ok" <=> now <= exp
            /\ ret.tag = "Err" <=> now > exp

---------------------------------------------------------------------------
(* C10 *)

\* C10: the time arithmetic never overflows or aborts: iat +
\* MAX_EXPIRY_HORIZON_SECS stays within u64, and verify_jwt_claims and
\* verify_expiry finish by returning Ok or Err, not by panicking.
C10_NoOverflowNoPanic ==
    /\ (IsVerify \/ IsVerifyExpiry) => ret.tag \in {"Ok", "Err"}
    /\ (IsVerify /\ Parses(args)) =>
            ClaimsOf(args).iat + MAX_EXPIRY_HORIZON_SECS <= U64_MAX

---------------------------------------------------------------------------
(* C4 *)

\* The nonce claim of a token issued for the key e and the expiry x.
TokenNonces ==
    [e \in {EPK_A, EPK_B} |->
        [x \in U64 |-> reconstruct_oauth_nonce([epk_blinder |-> BLINDER_1], x, e).val]]
TokenNonce(e, x) == TokenNonces[e][x]

\* C4: a token whose nonce claim commits to (epk, exp) is rejected by
\* verify_jwt_claims with any other key or any other expiry, and so is a token
\* whose nonce claim was altered; and the nonce of exp + 1 is not the nonce
\* of exp.
C4_NonceBinds ==
    /\ (IsVerify /\ Parses(args)) =>
        /\ \A e \in {EPK_A, EPK_B}, x \in U64 :
                (/\ ClaimsOf(args).nonce = TokenNonce(e, x)
                 /\ (args.epk # e \/ args.exp_timestamp_secs # x)) => Rejected(args)
        /\ ClaimsOf(args).nonce = TAMPERED_NONCE => Rejected(args)
    /\ (/\ op = "reconstruct_oauth_nonce" /\ ret.tag = "Ok"
        /\ args.exp_timestamp_secs < U64_MAX) =>
            reconstruct_oauth_nonce(args.self, args.exp_timestamp_secs + 1,
                                    args.epk).val # ret.val

\* A token issued for expiry x and verified with x + 1: every check but the
\* nonce passes, and the call returns the nonce error.
C4_Witness ==
    /\ IsVerify /\ Parses(args)
    /\ args.exp_timestamp_secs >= 1
    /\ ClaimsOf(args).nonce = TokenNonce(args.epk, args.exp_timestamp_secs - 1)
    /\ ~HorizonExceeded(args) /\ ~IssMismatch(args)
    /\ ~UidPolicyFails(args) /\ ~IdcMismatch(args)
    /\ ret = Err("'nonce' claim did not contain the expected EPK and expiration date commitment")

---------------------------------------------------------------------------
(* C5 *)

IsGetUidVal == op = "get_uid_val"

\* The email_verified claim is the boolean true or the string "true".
VerifiedTrue(claims) ==
    /\ claims.email_verified.some
    /\ \/ (claims.email_verified.v.kind = "bool" /\ claims.email_verified.v.b)
       \/ (claims.email_verified.v.kind = "string"
            /\ claims.email_verified.v.s = "true")

VerifiedIsStringFalse(claims) ==
    /\ claims.email_verified.some
    /\ claims.email_verified.v.kind = "string"
    /\ claims.email_verified.v.s = "false"

\* C5: for uid_key = "email", get_uid_val returns the email claim exactly when
\* email_verified is present and is the boolean true or the string "true" and
\* the email claim is present, and an error otherwise; verify_jwt_claims with
\* uid_key = "email" and email_verified = "false" is rejected.
C5_EmailNeedsVerified ==
    /\ (IsGetUidVal /\ args.uid_key = "email") =>
        /\ ret.tag \in {"Ok", "Err"}
        /\ ret.tag = "Ok" <=> (VerifiedTrue(args.claims) /\ args.claims.email.some)
        /\ ret.tag = "Ok" => ret.val = args.claims.email.v
    /\ (/\ IsVerify /\ Parses(args) /\ args.self.uid_key = "email"
        /\ VerifiedIsStringFalse(ClaimsOf(args))) => Rejected(args)

\* get_uid_val asked for the email of a token whose email_verified is the
\* string "true", returning the email.
C5_Witness ==
    /\ IsGetUidVal /\ args.uid_key = "email"
    /\ args.claims.email_verified.some
    /\ args.claims.email_verified.v.kind = "string"
    /\ ret = Ok(EMAIL)

---------------------------------------------------------------------------
(* C6 *)

\* C6 as claimed: get_uid_val fails for every uid_key that is neither "sub"
\* nor "email", also when the token carries a string under that key; for
\* uid_key = "sub" it returns the sub claim.
C6_CustomKeyFails ==
    IsGetUidVal =>
        /\ args.uid_key \notin {"sub", "email"} => ret.tag = "Err"
        /\ args.uid_key = "sub" => ret = Ok(args.claims.sub)

\* The token carries a string under key k among its additional claims.
HasStringClaim(claims, k) ==
    /\ k \in DOMAIN claims.additional_claims
    /\ claims.additional_claims[k].kind = "string"

\* C6, amended: it is verify_jwt_claims that turns down every uid_key that is
\* neither "sub" nor "email", also when the token carries a string under that
\* key.  get_uid_val itself returns that string, and fails for such a key only
\* when the claim is absent or no string; for uid_key = "sub" it returns the
\* sub claim.
C6_CustomKeyRejectedByVerify ==
    /\ IsGetUidVal =>
        /\ args.uid_key \notin {"sub", "email"} =>
            /\ ret.tag \in {"Ok", "Err"}
            /\ ret.tag = "Ok" <=> HasStringClaim(args.claims, args.uid_key)
            /\ ret.tag = "Ok" =>
                    ret.val = args.claims.additional_claims[args.uid_key].s
        /\ args.uid_key = "sub" => ret = Ok(args.claims.sub)
    /\ (IsVerify /\ args.self.uid_key \notin {"sub", "email"}) =>
            IF Parses(args) THEN Rejected(args) ELSE ret.tag = "Err"

\* verify_jwt_claims given uid_key = "name", a token with a string "name"
\* claim and a public key committing to it, every other check passing, and
\* returning the uid_key error.
C6_Witness ==
    /\ IsVerify /\ Parses(args)
    /\ args.self.uid_key = "name"
    /\ HasStringClaim(ClaimsOf(args), "name")
    /\ ~HorizonExceeded(args) /\ ~IssMismatch(args)
    /\ ~IdcMismatch(args) /\ ~NonceMismatch(args)
    /\ ret = Err("uid_key must be either 'sub' or 'email'")

---------------------------------------------------------------------------
(* C7 *)

IsGetZkid == op = "get_zkid_authenticators"

SlotsOf(a) == a.transaction.single_key.val

IsZkIdSlot(slot) ==
    slot.public_key.variant = "ZkId" /\ slot.signature.variant = "ZkId"

\* The positions of the zkID slots of an authenticator set.
ZkIdPositions(slots) == {i \in 1..Len(slots) : IsZkIdSlot(slots[i])}

\* C7: get_zkid_authenticators returns exactly the (public key, signature)
\* pairs of the slots whose public key and signature are both zkID, in slot
\* order, and the empty sequence when there is none.
C7_ZkIdSlotsInOrder ==
    (IsGetZkid /\ args.transaction.single_key.tag = "Ok") =>
        LET slots == SlotsOf(args)
            pairs == ret.val
        IN  /\ ret.tag = "Ok"
            /\ Len(pairs) = Cardinality(ZkIdPositions(slots))
            /\ \A k \in 1..Len(pairs) :
                /\ pairs[k][1].key \in ZkIdPositions(slots)
                /\ pairs[k] = <<slots[pairs[k][1].key].public_key,
                                slots[pairs[k][1].key].signature>>
            /\ \A j, k \in 1..Len(pairs) :
                j < k => pairs[j][1].key < pairs[k][1].key
            /\ ZkIdPositions(slots) = {} => pairs = <<>>

\* Three slots, the middle one a zkID key with another kind of signature:
\* the first and the third pair are returned.
C7_Witness ==
    /\ IsGetZkid /\ args.transaction.single_key.tag = "Ok"
    /\ Len(SlotsOf(args)) = 3
    /\ SlotsOf(args)[2].public_key.variant = "ZkId"
    /\ SlotsOf(args)[2].signature.variant # "ZkId"
    /\ ret.tag = "Ok" /\ Len(ret.val) = 2
    /\ ret.val[1][1].key = 1 /\ ret.val[2][2].sig = 3

---------------------------------------------------------------------------
(* C8 *)

IsValidate == op = "validate_zkid_authenticators"

---------------------------------------------------------------------------
(* C9 *)

\* C9: new_from_preimage succeeds when aud, uid_key and uid_val are each at
\* most 248 bytes (248 included) and returns an error, and no commitment,
\* when one of them is longer; reconstruct_oauth_nonce succeeds when the
\* ephemeral public key is at most 93 bytes and returns an error when longer.
C9_SizeBoundsInclusive ==
    /\ op = "new_from_preimage" =>
        /\ ret.tag \in {"Ok", "Err"}
        /\ ret.tag = "Ok" <=>
            (Len(args.aud) <= 248 /\ Len(args.uid_key) <= 248
                /\ Len(args.uid_val) <= 248)
    /\ op = "reconstruct_oauth_nonce" =>
        /\ ret.tag \in {"Ok", "Err"}
        /\ ret.tag = "Ok" <=> Len(args.epk) <= 93

\* A commitment made of an audience and a uid_val of exactly 248 bytes.
C9_Witness ==
    /\ op = "new_from_preimage"
    /\ Len(args.aud) = 248 /\ Len(args.uid_val) = 248
    /\ ret.tag = "Ok"

====
